---- MODULE Spec2Model ----
(***************************************************************************)
(* Model of the CSS selector builder of src/src/05-objects-tasks.js:       *)
(* class SelectorBuild (lines 114-192) and the facade cssSelectorBuilder   *)
(* (lines 193-201).                                                        *)
(*                                                                         *)
(* A JavaScript string is a sequence of one-character strings, a Map is a  *)
(* sequence of entries in insertion order, and an array stored in a Map is *)
(* a heap object: an entry of arrCombine that was spread out of another    *)
(* instance's Map refers to that array, it does not copy it.               *)
(***************************************************************************)
EXTENDS Integers, Sequences, FiniteSets, TLC

\* ------------------------------------------------------------------ bounds
MaxInst == 4
MaxCalls == 4
MaxChain == 5

\* ---------------------------------------------------------------- inputs
Values == { <<"a">>, <<"b">> }
Combinators == { <<"+">>, <<" ">> }

\* ------------------------------------------------------- constructor state
positions == <<"element", "id", "class", "attr", "pseudoClass", "pseudoElement">>

Kinds == { positions[i] : i \in 1..Len(positions) }
ScalarKinds == { "element", "id", "pseudoElement" }
ArrayKinds == { "class", "attr", "pseudoClass" }

\* ------------------------------------------------------------ Map, Array
\* Array.prototype.indexOf, 0-based, -1 when absent
IndexOf(s, x) ==
  IF \E i \in 1..Len(s) : s[i] = x
    THEN (CHOOSE i \in 1..Len(s) : s[i] = x /\ \A j \in 1..(i - 1) : s[j] # x) - 1
    ELSE -1

MapHas(m, k) == \E i \in 1..Len(m) : m[i].key = k

MapKeys(m) == [i \in 1..Len(m) |-> m[i].key]

MapGet(m, k) == m[IndexOf(MapKeys(m), k) + 1]

\* Map.prototype.set: an existing key keeps its place, a new key goes last
MapSet(m, k, isArr, v) ==
  IF MapHas(m, k)
    THEN [i \in 1..Len(m) |-> IF m[i].key = k THEN [key |-> k, arr |-> isArr, v |-> v] ELSE m[i]]
    ELSE Append(m, [key |-> k, arr |-> isArr, v |-> v])

\* this.selectors.get(k).push(frag)
MapPush(m, k, frag) ==
  [i \in 1..Len(m) |-> IF m[i].key = k THEN [m[i] EXCEPT !.v = Append(@, frag)] ELSE m[i]]

RECURSIVE Join(_)
\* Array.prototype.join('') of an array of strings
Join(ss) == IF Len(ss) = 0 THEN << >> ELSE Head(ss) \o Join(Tail(ss))

RECURSIVE Flat(_)
\* Array.prototype.flat(): one level; an item is a string or an array of strings
Flat(items) ==
  IF Len(items) = 0 THEN << >>
  ELSE (IF Head(items).arr THEN Head(items).v ELSE << Head(items).v >>) \o Flat(Tail(items))

\* ---------------------------------------------------------- SelectorBuild
Result(m, e) == [sel |-> m, err |-> e]

\* isSelectorHas setting a new empty array on every call
isSelectorHas_reset(m, selector) == MapSet(m, selector, TRUE, << >>)

isSelectorHas(m, selector) ==
  IF ~MapHas(m, selector) THEN MapSet(m, selector, TRUE, << >>) ELSE m

\* validUniq that never throws
validUniq_never(m, selector) == FALSE

\* TRUE when validUniq throws
validUniq(m, selector) == MapHas(m, selector)

\* validPosition that never throws
validPosition_never(m) == FALSE

\* validPosition looking at the key added last only
validPosition_lastOnly(m) ==
  LET selecKeys == MapKeys(m)
      currentPos == SelectSeq(positions, LAMBDA selec : IndexOf(selecKeys, selec) # -1)
  IN Len(selecKeys) > 0
       /\ (Len(selecKeys) - 1) > IndexOf(currentPos, selecKeys[Len(selecKeys)])

\* validPosition comparing with the 1-based place of the key
validPosition_offByOne(m) ==
  LET selecKeys == MapKeys(m)
      currentPos == SelectSeq(positions, LAMBDA selec : IndexOf(selecKeys, selec) # -1)
  IN \E i \in 1..Len(selecKeys) : (i - 1) > IndexOf(currentPos, selecKeys[i]) + 1

\* TRUE when validPosition throws
validPosition(m) ==
  LET selecKeys == MapKeys(m)
      currentPos == SelectSeq(positions, LAMBDA selec : IndexOf(selecKeys, selec) # -1)
  IN \E i \in 1..Len(selecKeys) : (i - 1) > IndexOf(currentPos, selecKeys[i])

Checked(m) == Result(m, IF validPosition(m) THEN "order" ELSE "none")

\* element() checking the order before the uniqueness
element_orderFirst(m, value) ==
  IF \E j \in 1..Len(m) : m[j].key # "element" THEN Result(m, "order")
  ELSE IF validUniq(m, "element") THEN Result(m, "dup")
  ELSE Checked(MapSet(m, "element", FALSE, value))

element(m, value) ==
  IF validUniq(m, "element") THEN Result(m, "dup")
  ELSE Checked(MapSet(m, "element", FALSE, value))

id(m, value) ==
  IF validUniq(m, "id") THEN Result(m, "dup")
  ELSE Checked(MapSet(m, "id", FALSE, <<"#">> \o value))

\* class() putting the new fragment first (unshift for push)
class_unshift(m, value) ==
  LET m1 == isSelectorHas(m, "class")
  IN Checked([i \in 1..Len(m1) |->
                IF m1[i].key = "class" THEN [m1[i] EXCEPT !.v = << <<".">> \o value >> \o @]
                ELSE m1[i]])

class(m, value) ==
  Checked(MapPush(isSelectorHas(m, "class"), "class", <<".">> \o value))

attr(m, value) ==
  Checked(MapPush(isSelectorHas(m, "attr"), "attr", <<"[">> \o value \o <<"]">>))

pseudoClass(m, value) ==
  Checked(MapPush(isSelectorHas(m, "pseudoClass"), "pseudoClass", <<":">> \o value))

\* pseudoElement() storing the value before it checks uniqueness
pseudoElement_setFirst(m, value) ==
  IF validUniq(m, "pseudoElement")
    THEN Result(MapSet(m, "pseudoElement", FALSE, <<":", ":">> \o value), "dup")
  ELSE Checked(MapSet(m, "pseudoElement", FALSE, <<":", ":">> \o value))

pseudoElement(m, value) ==
  IF validUniq(m, "pseudoElement") THEN Result(m, "dup")
  ELSE Checked(MapSet(m, "pseudoElement", FALSE, <<":", ":">> \o value))

\* ...selector.selectors.values(): a string is copied, an array is referred to
SpreadValues(m, inst) ==
  [i \in 1..Len(m) |->
     IF m[i].arr THEN [ref |-> TRUE, v |-> << >>, inst |-> inst, key |-> m[i].key]
     ELSE [ref |-> FALSE, v |-> m[i].v, inst |-> 0, key |-> ""]]

\* combine() pushing the combinator without the spaces around it
combine_noPad(sels, arrs, selector1, combinator, selector2) ==
  SpreadValues(sels[selector1], selector1)
    \o << [ref |-> FALSE, v |-> combinator, inst |-> 0, key |-> ""] >>
    \o SpreadValues(sels[selector2], selector2)
    \o arrs[selector2]

\* combine() leaving out selector2.arrCombine
combine_noChain(sels, arrs, selector1, combinator, selector2) ==
  SpreadValues(sels[selector1], selector1)
    \o << [ref |-> FALSE, v |-> <<" ">> \o combinator \o <<" ">>, inst |-> 0, key |-> ""] >>
    \o SpreadValues(sels[selector2], selector2)

\* the elements combine() pushes on this.arrCombine
combine(sels, arrs, selector1, combinator, selector2) ==
  SpreadValues(sels[selector1], selector1)
    \o << [ref |-> FALSE, v |-> <<" ">> \o combinator \o <<" ">>, inst |-> 0, key |-> ""] >>
    \o SpreadValues(sels[selector2], selector2)
    \o arrs[selector2]

\* the items an arrCombine holds, arrays read through their references
Deref(sels, chain) ==
  [i \in 1..Len(chain) |->
     IF chain[i].ref THEN [arr |-> TRUE, v |-> MapGet(sels[chain[i].inst], chain[i].key).v]
     ELSE [arr |-> FALSE, v |-> chain[i].v]]

MapValues(m) == [i \in 1..Len(m) |-> [arr |-> m[i].arr, v |-> m[i].v]]

stringify(sels, arrs, i) ==
  IF Len(arrs[i]) > 0 THEN Join(Flat(Deref(sels, arrs[i])))
  ELSE Join(Flat(MapValues(sels[i])))

\* ------------------------------------------------------------------ state
\* selectors[i], arrCombine[i]: the fields of the i-th SelectorBuild instance.
\* last, log, origin and calls record the run: the call just made, the add
\* calls made on the instance with their outcomes, the operands a facade
\* combine built the instance from, and the number of calls made.
VARIABLES selectors, arrCombine, last, log, origin, calls

vars == << selectors, arrCombine, last, log, origin, calls >>

Insts == 1..Len(selectors)

NoCall == [op |-> "none", fresh |-> FALSE, self |-> 0, kind |-> "", value |-> << >>,
           err |-> "none", a |-> 0, t |-> << >>, b |-> 0, out |-> << >>]

NoOrigin == [a |-> 0, t |-> << >>, b |-> 0]

Init ==
  /\ selectors = << >>
  /\ arrCombine = << >>
  /\ last = NoCall
  /\ log = << >>
  /\ origin = << >>
  /\ calls = 0

\* a part-adding method called on the existing instance i; res is what it did
Add(i, kind, value, res) ==
  /\ selectors' = [selectors EXCEPT ![i] = res.sel]
  /\ log' = [log EXCEPT ![i] = Append(@, [kind |-> kind, value |-> value, err |-> res.err])]
  /\ last' = [NoCall EXCEPT !.op = "add", !.self = i, !.kind = kind, !.value = value,
                            !.err = res.err]
  /\ calls' = calls + 1
  /\ UNCHANGED << arrCombine, origin >>

\* new SelectorBuild().kind(value): an instance whose first call throws is never returned
New(kind, value, res) ==
  /\ res.err = "none"
  /\ selectors' = Append(selectors, res.sel)
  /\ arrCombine' = Append(arrCombine, << >>)
  /\ log' = Append(log, << [kind |-> kind, value |-> value, err |-> "none"] >>)
  /\ origin' = Append(origin, NoOrigin)
  /\ last' = [NoCall EXCEPT !.op = "add", !.fresh = TRUE, !.self = Len(selectors) + 1,
                            !.kind = kind, !.value = value]
  /\ calls' = calls + 1

CanCall == calls < MaxCalls
CanCreate == calls < MaxCalls /\ Len(selectors) < MaxInst

Element(i, value) == CanCall /\ Add(i, "element", value, element(selectors[i], value))
Id(i, value) == CanCall /\ Add(i, "id", value, id(selectors[i], value))
Class(i, value) == CanCall /\ Add(i, "class", value, class(selectors[i], value))
Attr(i, value) == CanCall /\ Add(i, "attr", value, attr(selectors[i], value))
PseudoClass(i, value) == CanCall /\ Add(i, "pseudoClass", value, pseudoClass(selectors[i], value))
PseudoElement(i, value) ==
  CanCall /\ Add(i, "pseudoElement", value, pseudoElement(selectors[i], value))

\* s.combine(selector1, combinator, selector2) on the existing instance i
Combine(i, selector1, combinator, selector2) ==
  /\ CanCall
  /\ arrCombine' = [arrCombine EXCEPT
                      ![i] = @ \o combine(selectors, arrCombine, selector1, combinator, selector2)]
  /\ last' = [NoCall EXCEPT !.op = "combine", !.self = i, !.a = selector1, !.t = combinator,
                            !.b = selector2]
  /\ calls' = calls + 1
  /\ UNCHANGED << selectors, log, origin >>

\* stringify() assigning the flattened chain back to this.arrCombine
Stringify_flattenInPlace(i) ==
  /\ CanCall
  /\ arrCombine' = [arrCombine EXCEPT
                      ![i] = [j \in 1..Len(Flat(Deref(selectors, @))) |->
                                [ref |-> FALSE, v |-> Flat(Deref(selectors, @))[j],
                                 inst |-> 0, key |-> ""]]]
  /\ last' = [NoCall EXCEPT !.op = "stringify", !.self = i,
                            !.out = stringify(selectors, arrCombine, i)]
  /\ calls' = calls + 1
  /\ UNCHANGED << selectors, log, origin >>

\* s.stringify() on the existing instance i; out is the string it returns
Stringify(i) ==
  /\ CanCall
  /\ last' = [NoCall EXCEPT !.op = "stringify", !.self = i,
                            !.out = stringify(selectors, arrCombine, i)]
  /\ calls' = calls + 1
  /\ UNCHANGED << selectors, arrCombine, log, origin >>

BuilderElement(value) == CanCreate /\ New("element", value, element(<< >>, value))
BuilderId(value) == CanCreate /\ New("id", value, id(<< >>, value))
BuilderClass(value) == CanCreate /\ New("class", value, class(<< >>, value))
BuilderAttr(value) == CanCreate /\ New("attr", value, attr(<< >>, value))
BuilderPseudoClass(value) == CanCreate /\ New("pseudoClass", value, pseudoClass(<< >>, value))
BuilderPseudoElement(value) ==
  CanCreate /\ New("pseudoElement", value, pseudoElement(<< >>, value))

\* the facade calling combine on its first operand instead of a new instance
BuilderCombine_onFirst(selec1, separ, selec2) ==
  /\ CanCreate
  /\ arrCombine' = [arrCombine EXCEPT
                      ![selec1] = @ \o combine(selectors, arrCombine, selec1, separ, selec2)]
  /\ last' = [NoCall EXCEPT !.op = "combine", !.fresh = TRUE, !.self = selec1,
                            !.a = selec1, !.t = separ, !.b = selec2]
  /\ calls' = calls + 1
  /\ UNCHANGED << selectors, log, origin >>

BuilderCombine(selec1, separ, selec2) ==
  /\ CanCreate
  /\ selectors' = Append(selectors, << >>)
  /\ arrCombine' = Append(arrCombine, combine(selectors, arrCombine, selec1, separ, selec2))
  /\ log' = Append(log, << >>)
  /\ origin' = Append(origin, [a |-> selec1, t |-> separ, b |-> selec2])
  /\ last' = [NoCall EXCEPT !.op = "combine", !.fresh = TRUE, !.self = Len(selectors) + 1,
                            !.a = selec1, !.t = separ, !.b = selec2]
  /\ calls' = calls + 1

Next ==
  \/ \E v \in Values : BuilderElement(v)
  \/ \E v \in Values : BuilderId(v)
  \/ \E v \in Values : BuilderClass(v)
  \/ \E v \in Values : BuilderAttr(v)
  \/ \E v \in Values : BuilderPseudoClass(v)
  \/ \E v \in Values : BuilderPseudoElement(v)
  \/ \E a \in Insts, b \in Insts, t \in Combinators : BuilderCombine(a, t, b)
  \/ \E i \in Insts, v \in Values : Element(i, v)
  \/ \E i \in Insts, v \in Values : Id(i, v)
  \/ \E i \in Insts, v \in Values : Class(i, v)
  \/ \E i \in Insts, v \in Values : Attr(i, v)
  \/ \E i \in Insts, v \in Values : PseudoClass(i, v)
  \/ \E i \in Insts, v \in Values : PseudoElement(i, v)
  \/ \E i \in Insts, a \in Insts, b \in Insts, t \in Combinators : Combine(i, a, t, b)
  \/ \E i \in Insts : Stringify(i)

\* any interleaving of facade and method calls on up to MaxInst instances
Spec == Init /\ [][Next]_vars

\* ------------------------------------------------------- one call chain
\* builder.k1(v1).k2(v2)... : the first call goes through the facade, the
\* later ones are methods of the instance it returned; a call that throws is
\* caught by the caller, who goes on calling.
ChainCall(kind, value, first, later) ==
  /\ calls < MaxChain
  /\ IF Len(selectors) = 0 THEN New(kind, value, first) ELSE Add(1, kind, value, later)

First == << >>
Only == selectors[1]

ChainElement(value) ==
  ChainCall("element", value, element(First, value), element(Only, value))
ChainId(value) == ChainCall("id", value, id(First, value), id(Only, value))
ChainClass(value) == ChainCall("class", value, class(First, value), class(Only, value))
ChainAttr(value) == ChainCall("attr", value, attr(First, value), attr(Only, value))
ChainPseudoClass(value) ==
  ChainCall("pseudoClass", value, pseudoClass(First, value), pseudoClass(Only, value))
ChainPseudoElement(value) ==
  ChainCall("pseudoElement", value, pseudoElement(First, value), pseudoElement(Only, value))

NextChain ==
  \/ \E v \in Values : ChainElement(v)
  \/ \E v \in Values : ChainId(v)
  \/ \E v \in Values : ChainClass(v)
  \/ \E v \in Values : ChainAttr(v)
  \/ \E v \in Values : ChainPseudoClass(v)
  \/ \E v \in Values : ChainPseudoElement(v)

SpecChain == Init /\ [][NextChain]_vars

\* ------------------------------------------------- vocabulary of the claims
Str(i) == stringify(selectors, arrCombine, i)

PosIndex(kind) == IndexOf(positions, kind)

\* the add calls made on an instance, whatever their outcome
Raised(i) == \E j \in 1..Len(log[i]) : log[i][j].err # "none"

OfKind(l, kind) == SelectSeq(l, LAMBDA e : e.kind = kind)

\* the fragment of one part, as the documentation of the builder writes it
Fragment(kind, value) ==
  CASE kind = "element" -> value
    [] kind = "id" -> <<"#">> \o value
    [] kind = "class" -> <<".">> \o value
    [] kind = "attr" -> <<"[">> \o value \o <<"]">>
    [] kind = "pseudoClass" -> <<":">> \o value
    [] kind = "pseudoElement" -> <<":", ":">> \o value

Fragments(l) == [j \in 1..Len(l) |-> Fragment(l[j].kind, l[j].value)]

\* the fragments of the calls l, kind by kind in canonical order
Canonical(l) ==
  Join([p \in 1..Len(positions) |-> Join(Fragments(OfKind(l, positions[p])))])

\* canonical indices never decrease and no scalar kind occurs twice
ValidSeq(l) ==
  /\ \A j \in 1..(Len(l) - 1) : PosIndex(l[j].kind) <= PosIndex(l[j + 1].kind)
  /\ \A k \in ScalarKinds : Len(OfKind(l, k)) <= 1

\* the step just taken is an add method called on the existing instance i
AddOn(i) == last'.op = "add" /\ ~last'.fresh /\ last'.self = i

\* the highest canonical index among the kinds the Map m holds, -1 if none
MaxIndex(m) ==
  IF Len(m) = 0 THEN -1
  ELSE CHOOSE x \in { PosIndex(m[j].key) : j \in 1..Len(m) } :
         \A j \in 1..Len(m) : PosIndex(m[j].key) <= x

\* ------------------------------------------------------------------ C1
\* C1: when the add calls made on a selector have non-decreasing canonical
\* indices and element, id, pseudoElement occur at most once, no call has
\* raised and stringify() is the concatenation of the fragments in canonical
\* order, each with its prefix, a multi-valued kind in insertion order.
C1_ValidChainRenders ==
  \A i \in Insts :
    ValidSeq(log[i]) => ~Raised(i) /\ Str(i) = Canonical(log[i])

\* five valid calls over four kinds, two classes with different values
C1_Witness ==
  /\ Len(selectors) = 1
  /\ Len(log[1]) = 5
  /\ ValidSeq(log[1])
  /\ Cardinality({ log[1][j].kind : j \in 1..5 }) = 4
  /\ Len(OfKind(log[1], "class")) = 2
  /\ OfKind(log[1], "class")[1].value # OfKind(log[1], "class")[2].value

\* ------------------------------------------------------------------ C2
\* C2: a call to element, id or pseudoElement on an instance that already
\* holds that kind raises the duplicate-part error, and no call replaces the
\* value a scalar slot holds.
C2_ScalarSetOnce ==
  [][\A i \in Insts :
       /\ (AddOn(i) /\ last'.kind \in ScalarKinds /\ MapHas(selectors[i], last'.kind))
            => last'.err = "dup"
       /\ \A k \in ScalarKinds :
            MapHas(selectors[i], k)
              => MapHas(selectors'[i], k) /\ MapGet(selectors'[i], k) = MapGet(selectors[i], k)
    ]_vars

\* id was called again with another value, after calls of other kinds
C2_Witness ==
  /\ last.op = "add" /\ last.kind = "id" /\ last.err = "dup"
  /\ MapGet(selectors[last.self], "id").v # <<"#">> \o last.value
  /\ Len(selectors[last.self]) >= 2

\* ------------------------------------------------------------------ C3
\* C3: on a selector on which no call has raised, adding a kind that is not
\* yet present while a kind of strictly higher canonical index is present
\* raises the order-violation error at that call.
C3_NewKindBelowRaises ==
  [][\A i \in Insts :
       (/\ AddOn(i)
        /\ ~Raised(i)
        /\ ~MapHas(selectors[i], last'.kind)
        /\ PosIndex(last'.kind) < MaxIndex(selectors[i]))
         => last'.err = "order"
    ]_vars

\* the first error of a selector is an order violation, e.g. class after attr
C3_Witness ==
  /\ last.op = "add" /\ last.err = "order"
  /\ \A j \in 1..(Len(log[last.self]) - 1) : log[last.self][j].err = "none"
  /\ Len(log[last.self]) >= 3

\* ------------------------------------------------------------------ C4
\* C4: an add raises the order-violation error whenever its kind's canonical
\* index is strictly less than the highest canonical index added so far, also
\* when the kind is multi-valued and already has fragments (class, attr,
\* class raises at the third call). Calls that repeat a scalar kind, which
\* raise the duplicate-part error, are left to C2.
C4_BelowRunningMaxRaises ==
  [][\A i \in Insts :
       (/\ AddOn(i)
        /\ ~(last'.kind \in ScalarKinds /\ MapHas(selectors[i], last'.kind))
        /\ PosIndex(last'.kind) < MaxIndex(selectors[i]))
         => last'.err = "order"
    ]_vars

\* ------------------------------------------------------------------ C5
\* C5: an add call that raises the order-violation error leaves the selector
\* as it was: populated kinds, stored fragments and stringify() unchanged.
C5_OrderErrorNoMutation ==
  [][\A i \in Insts :
       (AddOn(i) /\ last'.err = "order")
         => /\ selectors'[i] = selectors[i]
            /\ arrCombine'[i] = arrCombine[i]
            /\ stringify(selectors', arrCombine', i) = stringify(selectors, arrCombine, i)
    ]_vars

\* ------------------------------------------------------------------ C6
\* C6: an element, id or pseudoElement call that raises the duplicate-part
\* error leaves the selector as it was: populated kinds, stored fragments and
\* stringify() unchanged.
C6_DuplicateErrorNoMutation ==
  [][\A i \in Insts :
       (AddOn(i) /\ last'.err = "dup")
         => /\ selectors'[i] = selectors[i]
            /\ arrCombine'[i] = arrCombine[i]
            /\ stringify(selectors', arrCombine', i) = stringify(selectors, arrCombine, i)
    ]_vars

\* pseudoElement was called again with another value
C6_Witness ==
  /\ last.op = "add" /\ last.kind = "pseudoElement" /\ last.err = "dup"
  /\ MapGet(selectors[last.self], "pseudoElement").v # <<":", ":">> \o last.value

\* ------------------------------------------------------------------ C7
\* not a combination result: no combine has put anything on its chain
Plain(i) == Len(arrCombine[i]) = 0

\* the combinator with one space on each side
Padded(t) == <<" ">> \o t \o <<" ">>

\* the step just taken is c = builder.combine(a, t, b)
Combined(c, a, t, b) ==
  /\ last.op = "combine" /\ last.fresh
  /\ last.self = c /\ last.a = a /\ last.t = t /\ last.b = b

\* C7: for selectors a and b that are not combination results and every
\* token t, builder.combine(a, t, b).stringify() is a.stringify(), one space,
\* t, one space, b.stringify().
C7_CombinePlain ==
  \A c \in Insts, a \in Insts, b \in Insts, t \in Combinators :
    (Combined(c, a, t, b) /\ Plain(a) /\ Plain(b))
      => Str(c) = Str(a) \o Padded(t) \o Str(b)

\* two different plain operands, the left one with two fragments
C7_Witness ==
  \E c \in Insts, a \in Insts, b \in Insts, t \in Combinators :
    /\ Combined(c, a, t, b) /\ Plain(a) /\ Plain(b)
    /\ a # b
    /\ Len(log[a]) = 2 /\ ~Raised(a)
    /\ Str(a) # Str(b)

\* ------------------------------------------------------------------ C8
\* l = builder.combine(x, s, y) of plain x and y, rendering as C7 says
NestedLeft(l, x, s, y) ==
  /\ origin[l] = [a |-> x, t |-> s, b |-> y]
  /\ Plain(x) /\ Plain(y)
  /\ Str(l) = Str(x) \o Padded(s) \o Str(y)

\* C8: for plain selectors x, y, z and tokens s, t,
\* combine(combine(x, s, y), t, z).stringify() is x.stringify() + ' s ' +
\* y.stringify() + ' t ' + z.stringify(): the chain of the left operand is
\* kept in the result.
C8_NestedLeftKept ==
  \A c \in Insts, l \in Insts, z \in Insts, x \in Insts, y \in Insts,
     s \in Combinators, t \in Combinators :
    (Combined(c, l, t, z) /\ NestedLeft(l, x, s, y) /\ Plain(z))
      => Str(c) = Str(x) \o Padded(s) \o Str(y) \o Padded(t) \o Str(z)

\* ------------------------------------------------------------------ C9
\* C9, as stated: for a plain selector a and a combination result r,
\* combine(a, t, r).stringify() is a.stringify() + ' t ' + r.stringify().
C9_NestedRightAsStated ==
  \A c \in Insts, a \in Insts, r \in Insts, t \in Combinators :
    (Combined(c, a, t, r) /\ Plain(a) /\ ~Plain(r))
      => Str(c) = Str(a) \o Padded(t) \o Str(r)

\* C9, amended: for a plain selector a and a combination result r that holds
\* no parts of its own, to any nesting depth, combine(a, t, r).stringify() is
\* a.stringify() + ' t ' + r.stringify().
C9_NestedRight ==
  \A c \in Insts, a \in Insts, r \in Insts, t \in Combinators :
    (Combined(c, a, t, r) /\ Plain(a) /\ ~Plain(r) /\ Len(selectors[r]) = 0)
      => Str(c) = Str(a) \o Padded(t) \o Str(r)

\* combine(a, t, combine(_, _, combine(_, ' ', _))): the right operand is a
\* combination whose own right operand is a combination made with ' '
C9_Witness ==
  \E c \in Insts, a \in Insts, r \in Insts, t \in Combinators :
    /\ Combined(c, a, t, r) /\ Plain(a) /\ Len(selectors[r]) = 0
    /\ origin[r] # NoOrigin
    /\ origin[origin[r].b] # NoOrigin
    /\ origin[origin[r].b].t = <<" ">>
    /\ Len(selectors[origin[r].b]) = 0

\* ------------------------------------------------------------------ C10
\* C10: after c = builder.combine(a, t, b), no later add call on a or on b,
\* successful or failing, changes the result of c.stringify().
C10_CombinedUnaffectedByOperandAdds ==
  [][\A c \in Insts, i \in Insts :
       (AddOn(i) /\ origin[c] # NoOrigin /\ i \in { origin[c].a, origin[c].b } /\ i # c)
         => stringify(selectors', arrCombine', c) = stringify(selectors, arrCombine, c)
    ]_vars

\* ------------------------------------------------------------------ C11
\* C11: builder.combine(a, t, b) returns a new instance, distinct from a and
\* from b, and leaves the populated kinds, stored fragments, combined chain
\* and stringify() result of a and of b as they were before the call.
C11_CombineLeavesOperands ==
  [][(last'.op = "combine" /\ last'.fresh)
       => /\ last'.self \notin Insts
          /\ \A x \in { last'.a, last'.b } :
               /\ selectors'[x] = selectors[x]
               /\ arrCombine'[x] = arrCombine[x]
               /\ stringify(selectors', arrCombine', x) = stringify(selectors, arrCombine, x)
    ]_vars

\* a combination of two different operands, one plain with parts and one
\* that is itself a combination result
C11_Witness ==
  /\ last.op = "combine" /\ last.fresh
  /\ last.a # last.b
  /\ Len(selectors[last.a]) > 0 /\ Len(arrCombine[last.a]) = 0
  /\ Len(arrCombine[last.b]) > 0

\* ------------------------------------------------------------------ C12
\* C12: a selector whose combined chain is non-empty renders from that chain
\* only: an add call made on it leaves its stringify() result unchanged.
C12_AddsOnCombinedInvisible ==
  [][\A i \in Insts :
       (AddOn(i) /\ ~Plain(i))
         => stringify(selectors', arrCombine', i) = stringify(selectors, arrCombine, i)
    ]_vars

\* ------------------------------------------------------------------ C13
\* what the parts of instance i render to, without its chain
PartsStr(i) == Join(Flat(MapValues(selectors[i])))

\* s occurs in t as a run of consecutive characters
Within(s, t) ==
  \E k \in 0..(Len(t) - Len(s)) : \A j \in 1..Len(s) : t[k + j] = s[j]

\* C13: when combine is invoked on a selector s that already has populated
\* parts (s = builder.element('a'); s.combine(l, t, r)), the fragments of s's
\* own parts are folded into the chain and appear in s.stringify() after the
\* call.
C13_OwnPartsFolded ==
  \A s \in Insts :
    (last.op = "combine" /\ ~last.fresh /\ last.self = s /\ Len(selectors[s]) > 0)
      => Within(PartsStr(s), Str(s))

\* ------------------------------------------------------------------ C14
\* C14: stringify() performs no mutation: in every reachable state of a
\* selector, plain or combined, with or without earlier failed adds, it
\* leaves parts and chain unchanged, and two consecutive stringify() calls
\* with no add or combine between them return the same string.
C14_StringifyPure ==
  [][last'.op = "stringify"
       => /\ selectors' = selectors
          /\ arrCombine' = arrCombine
          /\ (last.op = "stringify" /\ last.self = last'.self) => last'.out = last.out
    ]_vars

\* stringify() was called on a combined selector whose chain refers to the
\* array of an operand, after an add had failed on some selector
C14_Witness ==
  /\ last.op = "stringify"
  /\ \E j \in 1..Len(arrCombine[last.self]) : arrCombine[last.self][j].ref
  /\ \E x \in Insts : Raised(x)

\* ------------------------------------------------------------------ C15
\* C15: class, attr and pseudoClass never raise the duplicate-part error;
\* adding the same kind again, even with the same raw value, directly after
\* an accepted fragment of that kind succeeds and appends one more fragment,
\* so class('a').class('a') renders '.a.a'.
C15_MultiValuedRepeat ==
  [][\A i \in Insts :
       (AddOn(i) /\ last'.kind \in ArrayKinds)
         => /\ last'.err # "dup"
            /\ (/\ log[i][Len(log[i])].kind = last'.kind
                /\ log[i][Len(log[i])].err = "none")
                 => /\ last'.err = "none"
                    /\ MapGet(selectors'[i], last'.kind).v
                         = Append(MapGet(selectors[i], last'.kind).v,
                                  Fragment(last'.kind, last'.value))
    ]_vars

\* class('a').class('a') was accepted and renders '.a.a'
C15_Witness ==
  /\ Len(selectors) = 1
  /\ log[1] = << [kind |-> "class", value |-> <<"a">>, err |-> "none"],
                 [kind |-> "class", value |-> <<"a">>, err |-> "none"] >>
  /\ Str(1) = <<".", "a", ".", "a">>

\* ------------------------------------------------------------------ C16
\* C16: on every selector on which no add call has raised, the populated
\* kinds are recorded in canonical order, and stringify() emits the fragments
\* grouped by kind in canonical order (element, id, all classes, all attrs,
\* all pseudo-classes, pseudo-element), never a lower kind after a higher.
\* (The selector renders its own parts: nothing was combined into it.)
C16_AcceptedKeepsCanonicalOrder ==
  \A i \in Insts :
    (~Raised(i) /\ Plain(i))
      => /\ \A j \in 1..(Len(selectors[i]) - 1) :
              PosIndex(selectors[i][j].key) < PosIndex(selectors[i][j + 1].key)
         /\ Str(i) = Canonical(log[i])

\* accepted calls whose indices went down: class, attr, then class again
C16_Witness ==
  /\ Len(selectors) = 1
  /\ ~Raised(1)
  /\ ~ValidSeq(log[1])
  /\ Len(selectors[1]) >= 3

\* ------------------------------------------------------------------ C17
\* C17: once an add call on a selector has raised the order-violation error,
\* every later add call of any kind on that selector raises an error too
\* (duplicate or order): the out-of-order kind stays recorded.
C17_OrderErrorIsPermanent ==
  [][\A i \in Insts :
       (AddOn(i) /\ \E j \in 1..Len(log[i]) : log[i][j].err = "order")
         => last'.err # "none"
    ]_vars

\* after an order error, a call that would have been in order raised too
C17_Witness ==
  /\ Len(selectors) = 1
  /\ Len(log[1]) >= 3
  /\ log[1][Len(log[1]) - 1].err = "order"
  /\ log[1][Len(log[1])].err = "order"
  /\ \A j \in 1..(Len(log[1]) - 1) :
       PosIndex(log[1][j].kind) < PosIndex(log[1][Len(log[1])].kind)

\* ------------------------------------------------------------------ C18
\* C18: when a call to element, id or pseudoElement is both a duplicate and
\* out of order (element, id, element), the error raised is the
\* duplicate-part error, not the order-violation error.
C18_DuplicateBeforeOrder ==
  [][\A i \in Insts :
       (/\ AddOn(i)
        /\ last'.kind \in ScalarKinds
        /\ MapHas(selectors[i], last'.kind)
        /\ PosIndex(last'.kind) < MaxIndex(selectors[i]))
         => last'.err = "dup"
    ]_vars

\* element, id, element on a selector on which nothing had raised before
C18_Witness ==
  /\ Len(selectors) = 1
  /\ Len(log[1]) = 3
  /\ log[1][1].kind = "element" /\ log[1][2].kind = "id" /\ log[1][3].kind = "element"
  /\ log[1][3].err = "dup"

TypeOK ==
  /\ Len(selectors) <= MaxInst
  /\ Len(arrCombine) = Len(selectors)
  /\ Len(log) = Len(selectors)
  /\ Len(origin) = Len(selectors)
====
